---- MODULE Spec2Model ----
(***************************************************************************)
(* The rules core of blitz-chess (engine/src): square, piece, move and     *)
(* castling-rights codecs, the board, State::apply_move and the move       *)
(* generator with its attack oracle, as a state machine over positions.    *)
(***************************************************************************)
EXTENDS Integers, Sequences, FiniteSets, TLC

\* ------------------------------------------------------------------ bounds
\* Plies applied from a start position when callers may pass any move.
MaxPly == 2
\* Plies applied from a start position when only generated moves are applied.
MaxGenPly == 3
\* Largest rank or file displacement passed to Square::offset and forward.
MaxShift == 9
\* Plies applied from the start position of the long knight game.
MaxClockPly == 3
\* The calls a caller makes on a board: set_piece, remove_piece, move_piece.
MaxBoardCalls == 1

\* ------------------------------------------------------------ bit helpers
RECURSIVE BitOr(_, _)
BitOr(a, b) ==
    IF a = 0 THEN b
    ELSE IF b = 0 THEN a
    ELSE (IF a % 2 = 1 \/ b % 2 = 1 THEN 1 ELSE 0) + 2 * BitOr(a \div 2, b \div 2)

RECURSIVE BitAnd(_, _)
BitAnd(a, b) ==
    IF a = 0 \/ b = 0 THEN 0
    ELSE (IF a % 2 = 1 /\ b % 2 = 1 THEN 1 ELSE 0) + 2 * BitAnd(a \div 2, b \div 2)

RECURSIVE Flatten(_)
Flatten(ss) == IF ss = <<>> THEN <<>> ELSE Head(ss) \o Flatten(Tail(ss))

\* Option<T>: None is the empty tuple, Some(x) the one-element tuple.
None == <<>>
Some(x) == <<x>>
unwrap(o) == o[1]

\* The outcome of a call that may panic: the value returned, or the message of
\* the panic and the place that raised it.
Ok(v) == << "ok", v >>
Panic(msg, at) == << "panic", msg, at >>

\* -------------------------------------------------------------- board.rs
\* enum PieceType (repr u8)
Knight == 0
Bishop == 1
Rook == 2
Queen == 3
Pawn == 4
King == 5

\* enum Color (repr u8)
White == 0
Black == 1

\* enum Lateral (repr i8)
Left == -1
Straight == 0
Right == 1

\* impl Not for Color
Not(c) == IF c = White THEN Black ELSE White

\* from_coords with rank and file taken in the other order.
from_coords_file_major(rank, file) == BitOr((file * 8) % 256, rank)

\* Square::from_coords: Square((rank << 3) | file) on u8
from_coords(rank, file) == BitOr((rank * 8) % 256, file)
\* Square::from_index: Square(index as u8)
from_index(index) == index % 256
\* Square::rank: self.0 >> 3
rank(sq) == sq \div 8
\* Square::file: self.0 & 0b111
file(sq) == sq % 8
\* Square::index
index(sq) == sq

in_bounds(r, f) == r >= 0 /\ r < 8 /\ f >= 0 /\ f < 8

\* Square::offset in a build whose arithmetic wraps: rank + dr and file + df
\* are sums of i8.
offset(sq, dr, df) ==
    LET r == ((rank(sq) + dr + 128) % 256) - 128
        f == ((file(sq) + df + 128) % 256) - 128
    IN  IF in_bounds(r, f) THEN Some(from_coords(r, f)) ELSE None

\* Square::offset in a build with overflow checks: a sum that leaves the i8
\* range panics.
offset_overflow_checked(sq, dr, df) ==
    IF rank(sq) + dr > 127 \/ rank(sq) + dr < -128
    THEN Panic("attempt to add with overflow", "rank")
    ELSE IF file(sq) + df > 127 \/ file(sq) + df < -128
    THEN Panic("attempt to add with overflow", "file")
    ELSE Ok(offset(sq, dr, df))

\* Square::forward in a build whose arithmetic wraps: -steps is a negation of
\* i8, and -(-128) is -128.
forward(sq, color, steps, lateral) ==
    IF color = White THEN offset(sq, steps, lateral)
    ELSE offset(sq, ((128 - steps) % 256) - 128, -lateral)

\* Square::forward in a build with overflow checks: negating -128 panics.
forward_overflow_checked(sq, color, steps, lateral) ==
    IF color = White THEN offset_overflow_checked(sq, steps, lateral)
    ELSE IF steps = -128 THEN Panic("attempt to negate with overflow", "steps")
    ELSE offset_overflow_checked(sq, -steps, -lateral)

\* PieceType::PROMOTABLE
PROMOTABLE == <<Knight, Bishop, Rook, Queen>>

\* PieceType::from_u8; 6 and 7 have no arm (unreachable!() in the source).
PieceType_from_u8(value) ==
    CASE value = 0 -> Knight
      [] value = 1 -> Bishop
      [] value = 2 -> Rook
      [] value = 3 -> Queen
      [] value = 4 -> Pawn
      [] value = 5 -> King

\* Piece bit encoding
OCCUPIED_BIT == 128
MOVED_BIT == 64
COLOR_BIT == 8
PIECE_MASK == 7

Piece_new(piece_type, color) == BitOr(BitOr(OCCUPIED_BIT, (color * 8) % 256), piece_type)
is_empty_value(value) == BitAnd(value, OCCUPIED_BIT) = 0
from_value(value) == IF is_empty_value(value) THEN None ELSE Some(value)
has_moved(p) == BitAnd(p, MOVED_BIT) # 0
piece_type(p) == PieceType_from_u8(BitAnd(p, PIECE_MASK))
color(p) == IF BitAnd(p, COLOR_BIT) # 0 THEN Black ELSE White
with_moved(p) == BitOr(p, MOVED_BIT)

\* The abort of piece_type() on the piece p, if it aborts: PieceType::from_u8
\* has no arm for the kind bits 6 and 7, which a byte of the board may carry,
\* and ends at unreachable!() there; PieceType_from_u8 has no value on them.
unreachable(p) ==
    IF BitAnd(p, PIECE_MASK) \in { Knight, Bishop, Rook, Queen, Pawn, King } THEN None
    ELSE Some(Panic("internal error: entered unreachable code", "piece_type"))

Squares == 0 .. 63

\* Board::new
Board_new == [s \in Squares |-> 0]
piece_at(b, s) == from_value(b[s])
is_empty(b, s) == is_empty_value(b[s])

\* Board mutations return the new board and the value the method returns.
set_piece(b, p, s) == [board |-> [b EXCEPT ![s] = p], ret |-> from_value(b[s])]
remove_piece(b, s) == [board |-> [b EXCEPT ![s] = 0], ret |-> from_value(b[s])]
\* move_piece setting the piece down as it was lifted.
move_piece_keeps_flag(b, from, to) ==
    LET lifted == remove_piece(b, from)
    IN  IF lifted.ret = None THEN [board |-> lifted.board, ret |-> None]
        ELSE set_piece(lifted.board, unwrap(lifted.ret), to)

move_piece(b, from, to) ==
    LET lifted == remove_piece(b, from)
    IN  IF lifted.ret = None THEN [board |-> lifted.board, ret |-> None]
        ELSE set_piece(lifted.board, with_moved(unwrap(lifted.ret)), to)

\* ----------------------------------------------------------- castling.rs
\* enum CastlingSide (repr u8)
Kingside == 0
Queenside == 1

KING_FILE == 4
KING_TARGETS == <<6, 2>>
ROOK_SOURCES == <<7, 0>>
ROOK_TARGETS == <<5, 3>>
CORRIDORS == << <<5, 6>>, <<1, 2, 3>> >>
KING_PATHS == << <<5, 6>>, <<3, 2>> >>

king_target_file(side) == KING_TARGETS[side + 1]
rook_source_file(side) == ROOK_SOURCES[side + 1]
rook_target_file(side) == ROOK_TARGETS[side + 1]
corridor_files(side) == CORRIDORS[side + 1]
king_path_files(side) == KING_PATHS[side + 1]

\* Color::home_rank is called by castling.rs and defined nowhere in the
\* sources; the glossary gives the back rank: 0 for White, 7 for Black.
home_rank(c) == IF c = White THEN 0 ELSE 7

bit_position(c, s) == c * 2 + s
CastlingRights_none == 0
CastlingRights_all == 15
has(cr, c, s) == BitAnd(cr, 2 ^ bit_position(c, s)) # 0
any(cr, c) == has(cr, c, Kingside) \/ has(cr, c, Queenside)
gain(cr, c, s) == BitOr(cr, 2 ^ bit_position(c, s))
\* lose with the bit set instead of cleared.
lose_sets_bit(cr, c, s) == BitOr(cr, 2 ^ bit_position(c, s))
lose(cr, c, s) == BitAnd(cr, 255 - 2 ^ bit_position(c, s))
lose_all(cr, c) == lose(lose(cr, c, Kingside), c, Queenside)

\* CastlingSide::from_rook_file
from_rook_file(f) ==
    IF f = ROOK_SOURCES[Kingside + 1] THEN Some(Kingside)
    ELSE IF f = ROOK_SOURCES[Queenside + 1] THEN Some(Queenside)
    ELSE None

\* from_rook_square without the test of the rank.
from_rook_square_any_rank(square, c) == from_rook_file(file(square))

\* CastlingSide::from_rook_square
from_rook_square(square, c) ==
    IF rank(square) # home_rank(c) THEN None ELSE from_rook_file(file(square))

\* CastlingRights::lose_for_rook_at
lose_for_rook_at(cr, square, c) ==
    LET side == from_rook_square(square, c)
    IN  IF side # None THEN lose(cr, c, unwrap(side)) ELSE cr

\* ----------------------------------------------------------------- mv.rs
\* enum MoveType (repr u8)
Normal == 0
Promotion == 1
EnPassant == 2
Castling == 3

\* MoveType::from_u8
MoveType_from_u8(value) ==
    CASE value = 0 -> Normal
      [] value = 1 -> Promotion
      [] value = 2 -> EnPassant
      [] value = 3 -> Castling

Move_new(src, tgt) == BitOr(src, (tgt * 64) % 65536)
Move_promotion(src, tgt, promoted_to) ==
    BitOr(BitOr(BitOr(src, (tgt * 64) % 65536), (promoted_to * 4096) % 65536),
          (Promotion * 16384) % 65536)
Move_en_passant(src, tgt) ==
    BitOr(BitOr(src, (tgt * 64) % 65536), (EnPassant * 16384) % 65536)
Move_castling(src, tgt) ==
    BitOr(BitOr(src, (tgt * 64) % 65536), (Castling * 16384) % 65536)

source(m) == from_index(BitAnd(m, 63))
target(m) == from_index(BitAnd(m \div 64, 63))
move_type(m) == MoveType_from_u8(BitAnd(m \div 16384, 3))
promotion_piece(m) ==
    IF move_type(m) = Promotion THEN Some(PieceType_from_u8(BitAnd(m \div 4096, 3)))
    ELSE None

\* castling_side reading the side off the wrong comparison.
castling_side_reversed(m) ==
    IF file(target(m)) < file(source(m)) THEN Kingside ELSE Queenside

castling_side(m) ==
    IF file(target(m)) > file(source(m)) THEN Kingside ELSE Queenside
\* castling_rook_squares always naming the rook squares of the first rank.
castling_rook_squares_first_rank(m) ==
    << from_coords(0, rook_source_file(castling_side(m))),
       from_coords(0, rook_target_file(castling_side(m))) >>

castling_rook_squares(m) ==
    << from_coords(rank(source(m)), rook_source_file(castling_side(m))),
       from_coords(rank(source(m)), rook_target_file(castling_side(m))) >>
\* en_passant_capture naming the square the capturing pawn lands on.
en_passant_capture_on_target(m) == from_coords(rank(target(m)), file(target(m)))

en_passant_capture(m) == from_coords(rank(source(m)), file(target(m)))

\* -------------------------------------------------------------- state.rs
\* A State value: the six fields of struct State.
MkState(b, tm, cr, ep, hc, fn) ==
    [board |-> b, to_move |-> tm, castling_rights |-> cr, en_passant |-> ep,
     halfmove_clock |-> hc, fullmove_number |-> fn]

\* resulting_en_passant without the double-push test.
resulting_en_passant_any_pawn_move(self, m, piece) ==
    IF piece_type(piece) # Pawn THEN None
    ELSE forward(source(m), self.to_move, 1, Straight)

\* self is the state after the board mutation; its to_move is still the mover.
resulting_en_passant(self, m, piece) ==
    IF piece_type(piece) # Pawn THEN None
    ELSE LET d == rank(target(m)) - rank(source(m))
             is_double_push == (IF d < 0 THEN -d ELSE d) = 2
         IN  IF ~is_double_push THEN None
             ELSE forward(source(m), self.to_move, 1, Straight)

\* halfmove_clock is a u8 and fullmove_number a u16: the additions wrap (a
\* debug build panics instead of wrapping).
apply_normal(st, m) ==
    LET piece == unwrap(piece_at(st.board, source(m)))
        moved == move_piece(st.board, source(m), target(m))
        self == [st EXCEPT !.board = moved.board]
        is_pawn == piece_type(piece) = Pawn
    IN  MkState(moved.board,
                Not(st.to_move),
                st.castling_rights,
                resulting_en_passant(self, m, piece),
                IF is_pawn \/ moved.ret # None THEN 0
                ELSE (st.halfmove_clock + 1) % 256,
                (st.fullmove_number + (IF st.to_move = Black THEN 1 ELSE 0)) % 65536)

\* apply_promotion carrying the pawn itself to the target.
apply_promotion_keeps_pawn(st, m) ==
    LET b1 == remove_piece(st.board, target(m)).board
        b2 == move_piece(b1, source(m), target(m)).board
    IN  MkState(b2, Not(st.to_move), st.castling_rights, None, 0,
                (st.fullmove_number + (IF st.to_move = Black THEN 1 ELSE 0)) % 65536)

apply_promotion(st, m) ==
    LET b1 == remove_piece(st.board, target(m)).board
        b2 == remove_piece(b1, source(m)).board
        promoted == with_moved(Piece_new(unwrap(promotion_piece(m)), st.to_move))
        b3 == set_piece(b2, promoted, target(m)).board
    IN  MkState(b3,
                Not(st.to_move),
                st.castling_rights,
                None,
                0,
                (st.fullmove_number + (IF st.to_move = Black THEN 1 ELSE 0)) % 65536)

apply_en_passant(st, m) ==
    LET b1 == move_piece(st.board, source(m), target(m)).board
        b2 == remove_piece(b1, en_passant_capture(m)).board
    IN  MkState(b2,
                Not(st.to_move),
                st.castling_rights,
                None,
                0,
                (st.fullmove_number + (IF st.to_move = Black THEN 1 ELSE 0)) % 65536)

apply_castling(st, m) ==
    LET b1 == move_piece(st.board, source(m), target(m)).board
        rook == castling_rook_squares(m)
        b2 == move_piece(b1, rook[1], rook[2]).board
    IN  MkState(b2,
                Not(st.to_move),
                lose_all(st.castling_rights, st.to_move),
                None,
                (st.halfmove_clock + 1) % 256,
                (st.fullmove_number + (IF st.to_move = Black THEN 1 ELSE 0)) % 65536)

apply_move(st, m) ==
    CASE move_type(m) = Normal    -> apply_normal(st, m)
      [] move_type(m) = Promotion -> apply_promotion(st, m)
      [] move_type(m) = EnPassant -> apply_en_passant(st, m)
      [] move_type(m) = Castling  -> apply_castling(st, m)

\* ----------------------------------------------------------- mobility.rs
\* The value of a one-element set.
the(one) == CHOOSE x \in one : TRUE

KNIGHT_OFFSETS ==
    << <<-2, -1>>, <<-2, 1>>, <<-1, -2>>, <<-1, 2>>,
       <<1, -2>>, <<1, 2>>, <<2, -1>>, <<2, 1>> >>

\* The source matches state.board[to] against None / Some(target); the slot's
\* occupant, as piece_at decodes it, is what the match is on.
\* knight_moves without the test of the target's color.
knight_moves_onto_any(st, sq) ==
    Flatten([i \in 1 .. 8 |->
        LET to == offset(sq, KNIGHT_OFFSETS[i][1], KNIGHT_OFFSETS[i][2])
        IN  IF to = None THEN <<>> ELSE << Move_new(sq, unwrap(to)) >>])

knight_moves(st, from) ==
    Flatten([i \in 1 .. 8 |->
        LET to == offset(from, KNIGHT_OFFSETS[i][1], KNIGHT_OFFSETS[i][2])
        IN  IF to = None THEN <<>>
            ELSE IF piece_at(st.board, unwrap(to)) = None
                 THEN << Move_new(from, unwrap(to)) >>
            ELSE IF color(unwrap(piece_at(st.board, unwrap(to)))) # st.to_move
                 THEN << Move_new(from, unwrap(to)) >>
            ELSE <<>>])

\* The bodies of these five generators are empty in the source.
pawn_moves(st, from) == <<>>
bishop_moves(st, from) == <<>>
rook_moves(st, from) == <<>>
queen_moves(st, from) == <<>>
king_moves(st, from) == <<>>

\* The square at which the loop of pseudo_legal_moves aborts, if it does: the
\* first, in the order of pieces(), that holds a piece of the side to move
\* whose kind bits PieceType::from_u8 has no arm for. A piece of the other
\* color is passed over before its kind is read.
abort_square(st) ==
    LET stuck == { i \in 0 .. 63 :
                     /\ piece_at(st.board, from_index(i)) # None
                     /\ color(st.board[from_index(i)]) = st.to_move
                     /\ unreachable(st.board[from_index(i)]) # None }
    IN  IF stuck = {} THEN None
        ELSE Some(from_index(CHOOSE i \in stuck : \A o \in stuck : i <= o))

\* pseudo_legal_moves: the candidates the iterator produces, in order, and
\* the abort that ends it, if one does, after the candidates of the squares
\* before it.
pseudo_legal_moves(st) ==
    the({ [moves |->
              Flatten([i \in 1 .. (IF stop = None THEN 64 ELSE index(unwrap(stop))) |->
                  LET sq == from_index(i - 1)
                      p  == piece_at(st.board, sq)
                  IN  IF p = None THEN <<>>
                      ELSE IF color(unwrap(p)) # st.to_move THEN <<>>
                      ELSE CASE piece_type(unwrap(p)) = Pawn   -> pawn_moves(st, sq)
                             [] piece_type(unwrap(p)) = Knight -> knight_moves(st, sq)
                             [] piece_type(unwrap(p)) = Bishop -> bishop_moves(st, sq)
                             [] piece_type(unwrap(p)) = Rook   -> rook_moves(st, sq)
                             [] piece_type(unwrap(p)) = Queen  -> queen_moves(st, sq)
                             [] piece_type(unwrap(p)) = King   -> king_moves(st, sq)]),
           panic |-> IF stop = None THEN None
                     ELSE unreachable(unwrap(piece_at(st.board, unwrap(stop))))] :
          stop \in { abort_square(st) } })

\* find_king: Iterator::find over pieces() reads the kind of each piece in
\* index order, then its color, and stops at the first king of the color; it
\* aborts at a piece before that king whose kind bits have no arm, and
\* expect("king must exist") aborts when it runs out of pieces. The first
\* square at which the search ends decides; nothing after it is read.
find_king(b, c) ==
    LET stops == { i \in 0 .. 63 :
                     /\ piece_at(b, from_index(i)) # None
                     /\ \/ unreachable(b[from_index(i)]) # None
                        \/ /\ piece_type(b[from_index(i)]) = King
                           /\ color(b[from_index(i)]) = c }
    IN  IF stops = {} THEN Panic("king must exist", "find_king")
        ELSE the({ IF unreachable(b[from_index(first)]) # None
                   THEN unwrap(unreachable(b[from_index(first)]))
                   ELSE Ok(from_index(first)) :
                   first \in { CHOOSE i \in stops : \A o \in stops : i <= o } })

\* is_square_attacked with the color test inverted.
is_square_attacked_wrong_color(b, square, by) ==
    \E i \in 1 .. 8 :
        LET sq == offset(square, KNIGHT_OFFSETS[i][1], KNIGHT_OFFSETS[i][2])
        IN  /\ sq # None
            /\ piece_at(b, unwrap(sq)) # None
            /\ color(unwrap(piece_at(b, unwrap(sq)))) # by
            /\ piece_type(unwrap(piece_at(b, unwrap(sq)))) = Knight

\* is_square_attacked, where it returns.
is_square_attacked(b, square, by) ==
    \E i \in 1 .. 8 :
        LET sq == offset(square, KNIGHT_OFFSETS[i][1], KNIGHT_OFFSETS[i][2])
        IN  /\ sq # None
            /\ piece_at(b, unwrap(sq)) # None
            /\ color(unwrap(piece_at(b, unwrap(sq)))) = by
            /\ piece_type(unwrap(piece_at(b, unwrap(sq)))) = Knight

\* The abort of is_square_attacked, if it aborts instead of returning: its
\* loop reads the kind of each piece of color by a knight's jump away, in the
\* order of KNIGHT_OFFSETS, and returns at the first knight; it aborts at a
\* piece before that knight whose kind bits have no arm.
is_square_attacked_aborts(b, square, by) ==
    LET at(i) == offset(square, KNIGHT_OFFSETS[i][1], KNIGHT_OFFSETS[i][2])
        stops == { i \in 1 .. 8 :
                     /\ at(i) # None
                     /\ piece_at(b, unwrap(at(i))) # None
                     /\ color(b[unwrap(at(i))]) = by
                     /\ \/ unreachable(b[unwrap(at(i))]) # None
                        \/ piece_type(b[unwrap(at(i))]) = Knight }
    IN  IF stops = {} THEN None
        ELSE unreachable(b[unwrap(at(CHOOSE i \in stops : \A o \in stops : i <= o))])

\* The abort of apply_move(st, m), if it aborts. apply_normal aborts at its
\* unwrap on a move from an empty square, before it changes anything, and at
\* piece_type() when the kind bits of the piece moved have no arm. In a build
\* with overflow checks (checks) apply_move aborts, after those, at the first
\* addition that exceeds the width of its field, the halfmove clock's before
\* the fullmove number's; the build that wraps, which apply_move above is,
\* goes on.
apply_move_aborts(st, m, checks) ==
    IF move_type(m) = Normal /\ piece_at(st.board, source(m)) = None
    THEN Some(Panic("called Option::unwrap() on a None value", "apply_normal"))
    ELSE IF /\ move_type(m) = Normal
            /\ unreachable(unwrap(piece_at(st.board, source(m)))) # None
    THEN unreachable(unwrap(piece_at(st.board, source(m))))
    ELSE IF ~checks THEN None
    ELSE IF /\ \/ move_type(m) = Castling
               \/ /\ move_type(m) = Normal
                  /\ piece_type(unwrap(piece_at(st.board, source(m)))) # Pawn
                  /\ move_piece(st.board, source(m), target(m)).ret = None
            /\ st.halfmove_clock + 1 > 255
    THEN Some(Panic("attempt to add with overflow", "halfmove_clock"))
    ELSE IF st.fullmove_number + (IF st.to_move = Black THEN 1 ELSE 0) > 65535
    THEN Some(Panic("attempt to add with overflow", "fullmove_number"))
    ELSE None

\* The rest of is_legal, on the board b of new_state and with c the color
\* read from state.to_move: the verdict, or the abort of find_king or of
\* is_square_attacked.
king_safe(b, c) ==
    the({ IF king_sq[1] = "panic" THEN king_sq
          ELSE IF is_square_attacked_aborts(b, king_sq[2], Not(c)) # None
          THEN unwrap(is_square_attacked_aborts(b, king_sq[2], Not(c)))
          ELSE Ok(~is_square_attacked(b, king_sq[2], Not(c))) :
          king_sq \in { find_king(b, c) } })

\* is_legal: the verdict, or the abort that ends the call.
is_legal(st, m) ==
    IF apply_move_aborts(st, m, FALSE) # None
    THEN unwrap(apply_move_aborts(st, m, FALSE))
    ELSE king_safe(apply_move(st, m).board, st.to_move)

\* is_legal in a build with overflow checks: apply_move aborts at an addition
\* that overflows, before the king is looked for.
is_legal_overflow_checked(st, m) ==
    IF apply_move_aborts(st, m, TRUE) # None
    THEN unwrap(apply_move_aborts(st, m, TRUE))
    ELSE king_safe(apply_move(st, m).board, st.to_move)

\* The states a run holds are cells of a heap, a sequence of State values; a
\* reference is the index of a cell. State::clone is called by is_legal and
\* defined nowhere in src/ (State derives nothing); spec.md, section 5, has
\* it make a value copy that shares nothing with the original: a new cell
\* holding the value of the cell cloned.
clone(heap, r) == [heap |-> Append(heap, heap[r]), ref |-> Len(heap) + 1]

\* is_legal applying the candidate to the borrowed state itself.
legality_check_in_place(heap, state, m, checks) ==
    IF apply_move_aborts(heap[state], m, checks) # None
    THEN [verdict |-> unwrap(apply_move_aborts(heap[state], m, checks)), heap |-> heap]
    ELSE the({ [verdict |-> king_safe(applied[state].board, applied[state].to_move),
                heap |-> applied] :
               applied \in { [heap EXCEPT ![state] = apply_move(heap[state], m)] } })

\* is_legal as a step of the generator, on the heap, in a build with overflow
\* checks (checks) or in one that wraps: the clone of the borrowed state is
\* consumed by apply_move, whose result new_state takes its cell;
\* state.to_move is read from the borrowed cell after that, and new_state is
\* dropped on return. An abort of apply_move drops the clone. The result is
\* the verdict, or the abort, and the heap left behind.
legality_check(heap, state, m, checks) ==
    the({ IF apply_move_aborts(copy.heap[copy.ref], m, checks) # None
          THEN [verdict |-> unwrap(apply_move_aborts(copy.heap[copy.ref], m, checks)),
                heap |-> heap]
          ELSE the({ [verdict |-> king_safe(applied[copy.ref].board,
                                            applied[state].to_move),
                      heap |-> SubSeq(applied, 1, Len(heap))] :
                     applied \in { [copy.heap EXCEPT
                                       ![copy.ref] = apply_move(copy.heap[copy.ref], m)] } }) :
          copy \in { clone(heap, state) } })

\* The loop of MoveGenerator::all as the gen blocks run it, from one check to
\* the next, on the state the generator borrows. With k = 0, pieces() goes on
\* from square i to the next square holding a piece of the side to move, as
\* the board reads now, that is a knight or has kind bits with no arm (the
\* generators of the other kinds yield nothing): the match aborts on the
\* latter, and knight_moves starts on the former, reading state.to_move as
\* its color c. With k in 1 .. 8, knight_moves(state, i) goes on from its
\* k-th offset to the next one whose target is on the board and not held by
\* a piece of color c, as the board reads now; that candidate is checked, and
\* yielded if legal, before anything more is read. A check that aborts ends
\* the run. The result is the moves yielded, the abort that ended the run if
\* one did, and the heap left behind.
RECURSIVE generate(_, _, _, _, _, _, _)
generate(heap, state, i, k, c, out, checks) ==
    IF k = 0
    THEN LET ahead == { sq \in i .. 63 :
                          /\ piece_at(heap[state].board, from_index(sq)) # None
                          /\ color(heap[state].board[from_index(sq)]) = heap[state].to_move
                          /\ \/ unreachable(heap[state].board[from_index(sq)]) # None
                             \/ piece_type(heap[state].board[from_index(sq)]) = Knight }
         IN  IF ahead = {} THEN [moves |-> out, panic |-> None, heap |-> heap]
             ELSE the({ IF unreachable(heap[state].board[from_index(sq)]) # None
                        THEN [moves |-> out,
                              panic |-> unreachable(heap[state].board[from_index(sq)]),
                              heap |-> heap]
                        ELSE generate(heap, state, sq, 1, heap[state].to_move, out, checks) :
                        sq \in { CHOOSE sq \in ahead : \A o \in ahead : sq <= o } })
    ELSE LET to(n) == offset(from_index(i), KNIGHT_OFFSETS[n][1], KNIGHT_OFFSETS[n][2])
             ahead == { n \in k .. 8 :
                          /\ to(n) # None
                          /\ \/ piece_at(heap[state].board, unwrap(to(n))) = None
                             \/ color(unwrap(piece_at(heap[state].board,
                                                      unwrap(to(n))))) # c }
         IN  IF ahead = {} THEN generate(heap, state, i + 1, 0, c, out, checks)
             ELSE the({ the({ IF checked.verdict[1] = "panic"
                              THEN [moves |-> out, panic |-> Some(checked.verdict),
                                    heap |-> checked.heap]
                              ELSE generate(checked.heap, state, i, n + 1, c,
                                            IF checked.verdict[2]
                                            THEN Append(out, Move_new(from_index(i),
                                                                      unwrap(to(n))))
                                            ELSE out,
                                            checks) :
                              checked \in { legality_check(heap, state,
                                                Move_new(from_index(i), unwrap(to(n))),
                                                checks) } }) :
                        n \in { CHOOSE n \in ahead : \A o \in ahead : n <= o } })

\* A run of the generator's loop over the candidates pseudo_legal_moves
\* produces, given the outcome of the check of each: the candidates found
\* legal before the first check that aborts are yielded in order, and that
\* abort ends the run; if no check aborts, the abort of pseudo_legal_moves
\* does, after its last candidate.
run(candidates, outcomes) ==
    the({ [moves |-> Flatten([i \in 1 .. Len(candidates.moves) |->
                        IF i < first /\ outcomes[i][2] THEN << candidates.moves[i] >>
                        ELSE << >>]),
           panic |-> IF first > Len(candidates.moves) THEN candidates.panic
                     ELSE Some(outcomes[first])] :
          first \in { CHOOSE i \in 1 .. Len(candidates.moves) + 1 :
                         /\ i <= Len(candidates.moves) => outcomes[i][1] = "panic"
                         /\ \A j \in 1 .. i - 1 : outcomes[j][1] # "panic" } })

\* MoveGenerator::all
all(st) ==
    the({ the({ run(candidates, outcomes) :
                outcomes \in { Flatten([i \in 1 .. Len(candidates.moves) |->
                                  << is_legal(st, candidates.moves[i]) >>]) } }) :
          candidates \in { pseudo_legal_moves(st) } })

\* MoveGenerator::all in a build with overflow checks.
all_overflow_checked(st) ==
    the({ the({ run(candidates, outcomes) :
                outcomes \in { Flatten([i \in 1 .. Len(candidates.moves) |->
                                  << is_legal_overflow_checked(st, candidates.moves[i]) >>]) } }) :
          candidates \in { pseudo_legal_moves(st) } })

\* MoveGenerator::from: a candidate from another square is passed over
\* without a check.
from(st, sq) ==
    the({ the({ run(candidates, outcomes) :
                outcomes \in { Flatten([i \in 1 .. Len(candidates.moves) |->
                                  << IF source(candidates.moves[i]) # sq THEN Ok(FALSE)
                                     ELSE is_legal(st, candidates.moves[i]) >>]) } }) :
          candidates \in { pseudo_legal_moves(st) } })

\* is_in_check, where it returns: it has no value when find_king aborts.
is_in_check(st) ==
    the({ CASE king_sq[1] = "ok" ->
                  is_square_attacked(st.board, king_sq[2], Not(st.to_move)) :
          king_sq \in { find_king(st.board, st.to_move) } })

\* ------------------------------------------------ the contract of spec.md
\* Section 4.5 of the specification: the complete attack oracle, which the
\* claims about attacked squares are stated against.
ORTHOGONALS == { <<1, 0>>, <<-1, 0>>, <<0, 1>>, <<0, -1>> }
DIAGONALS == { <<1, 1>>, <<1, -1>>, <<-1, 1>>, <<-1, -1>> }
KING_STEPS == ORTHOGONALS \cup DIAGONALS

\* The squares of a ray from sq, up to and including the first occupied one.
RECURSIVE RaySquares(_, _, _)
RaySquares(b, sq, d) ==
    LET nxt == offset(sq, d[1], d[2])
    IN  IF nxt = None THEN {}
        ELSE IF ~is_empty(b, unwrap(nxt)) THEN { unwrap(nxt) }
        ELSE { unwrap(nxt) } \cup RaySquares(b, unwrap(nxt), d)

StepSquares(sq, steps) ==
    { unwrap(offset(sq, o[1], o[2])) :
        o \in { o \in steps : offset(sq, o[1], o[2]) # None } }

\* A byte whose kind bits name no PieceType is a piece of no kind.
Holds(b, t, c, kinds) ==
    /\ ~is_empty(b, t)
    /\ color(b[t]) = c
    /\ unreachable(b[t]) = None
    /\ piece_type(b[t]) \in kinds

KnightAttack(b, s, c) ==
    \E t \in StepSquares(s, { KNIGHT_OFFSETS[i] : i \in 1 .. 8 }) :
        Holds(b, t, c, {Knight})

SliderAttack(b, s, c) ==
    \/ \E d \in ORTHOGONALS : \E t \in RaySquares(b, s, d) : Holds(b, t, c, {Rook, Queen})
    \/ \E d \in DIAGONALS : \E t \in RaySquares(b, s, d) : Holds(b, t, c, {Bishop, Queen})

PawnAttack(b, s, c) ==
    \E t \in StepSquares(s, DIAGONALS) :
        /\ Holds(b, t, c, {Pawn})
        /\ \/ forward(t, c, 1, Left) = Some(s)
           \/ forward(t, c, 1, Right) = Some(s)

KingAttack(b, s, c) ==
    \E t \in StepSquares(s, KING_STEPS) : Holds(b, t, c, {King})

AttackedPerSpec(b, s, c) ==
    \/ KnightAttack(b, s, c)
    \/ SliderAttack(b, s, c)
    \/ PawnAttack(b, s, c)
    \/ KingAttack(b, s, c)

\* Sections 4.3 and 4.6 of the specification: the well-formed moves a caller
\* may hand to apply_move (the legal moves of chess in the position).
NotOwn(st, t) == is_empty(st.board, t) \/ color(st.board[t]) # st.to_move
Enemy(st, t) == ~is_empty(st.board, t) /\ color(st.board[t]) # st.to_move

StepInputs(st, sq, steps) ==
    { Move_new(sq, t) : t \in { t \in StepSquares(sq, steps) : NotOwn(st, t) } }

SliderInputs(st, sq, dirs) ==
    { Move_new(sq, t) :
        t \in { t \in UNION { RaySquares(st.board, sq, d) : d \in dirs } : NotOwn(st, t) } }

PawnInputs(st, sq) ==
    LET c == st.to_move
        far == home_rank(Not(c))
        one == forward(sq, c, 1, Straight)
        two == forward(sq, c, 2, Straight)
        single == IF one # None /\ is_empty(st.board, unwrap(one))
                  THEN {unwrap(one)} ELSE {}
        double == IF /\ single # {}
                     /\ forward(from_coords(home_rank(c), file(sq)), c, 1, Straight) = Some(sq)
                     /\ is_empty(st.board, unwrap(two))
                  THEN {unwrap(two)} ELSE {}
        diag == StepSquares(sq, IF c = White THEN { <<1, -1>>, <<1, 1>> }
                                ELSE { <<-1, -1>>, <<-1, 1>> })
        plain == single \cup double \cup { t \in diag : Enemy(st, t) }
        ep == { t \in diag :
                  /\ st.en_passant = Some(t)
                  /\ is_empty(st.board, t)
                  /\ Holds(st.board, from_coords(rank(sq), file(t)), Not(c), {Pawn}) }
    IN  { Move_new(sq, t) : t \in { t \in plain : rank(t) # far } }
        \cup { Move_promotion(sq, t, PROMOTABLE[k]) :
                 t \in { t \in plain : rank(t) = far }, k \in 1 .. 4 }
        \cup { Move_en_passant(sq, t) : t \in ep }

CastlingInputs(st, sq) ==
    LET c == st.to_move
        home == home_rank(c)
        ok(side) ==
            /\ sq = from_coords(home, KING_FILE)
            /\ has(st.castling_rights, c, side)
            /\ ~has_moved(st.board[sq])
            /\ Holds(st.board, from_coords(home, rook_source_file(side)), c, {Rook})
            /\ ~has_moved(st.board[from_coords(home, rook_source_file(side))])
            /\ \A i \in 1 .. Len(corridor_files(side)) :
                  is_empty(st.board, from_coords(home, corridor_files(side)[i]))
            /\ ~AttackedPerSpec(st.board, sq, Not(c))
            /\ \A i \in 1 .. Len(king_path_files(side)) :
                  ~AttackedPerSpec(st.board, from_coords(home, king_path_files(side)[i]), Not(c))
    IN  { Move_castling(sq, from_coords(home, king_target_file(side))) :
            side \in { side \in {Kingside, Queenside} : ok(side) } }

PieceInputs(st, sq) ==
    LET k == piece_type(st.board[sq])
    IN  CASE k = Pawn   -> PawnInputs(st, sq)
          [] k = Knight -> StepInputs(st, sq, { KNIGHT_OFFSETS[i] : i \in 1 .. 8 })
          [] k = Bishop -> SliderInputs(st, sq, DIAGONALS)
          [] k = Rook   -> SliderInputs(st, sq, ORTHOGONALS)
          [] k = Queen  -> SliderInputs(st, sq, ORTHOGONALS \cup DIAGONALS)
          [] k = King   -> StepInputs(st, sq, KING_STEPS) \cup CastlingInputs(st, sq)

KingSquares(b, c) == { t \in Squares : Holds(b, t, c, {King}) }

ChessMoves(st) ==
    { m \in UNION { PieceInputs(st, sq) :
                      sq \in { sq \in Squares : Holds(st.board, sq, st.to_move,
                                   {Pawn, Knight, Bishop, Rook, Queen, King}) } } :
        /\ ~Holds(st.board, target(m), Not(st.to_move), {King})
        /\ LET after == apply_move(st, m).board
           IN  \A k \in KingSquares(after, st.to_move) :
                  ~AttackedPerSpec(after, k, Not(st.to_move)) }

\* -------------------------------------------------------- start positions
RECURSIVE Setup(_, _)
Setup(b, placements) ==
    IF placements = <<>> THEN b
    ELSE Setup(set_piece(b, placements[1][1], placements[1][2]).board, Tail(placements))

BACK_RANK == <<Rook, Knight, Bishop, Queen, King, Bishop, Knight, Rook>>

\* The standard initial position (Scenario A); no constructor is in the sources.
InitialBoard ==
    Setup(Board_new,
          [i \in 1 .. 32 |->
             LET f == (i - 1) % 8
                 row == (i - 1) \div 8
             IN  CASE row = 0 -> << Piece_new(BACK_RANK[f + 1], White), from_coords(0, f) >>
                   [] row = 1 -> << Piece_new(Pawn, White), from_coords(1, f) >>
                   [] row = 2 -> << Piece_new(Pawn, Black), from_coords(6, f) >>
                   [] row = 3 -> << Piece_new(BACK_RANK[f + 1], Black), from_coords(7, f) >>])

InitialPosition == MkState(InitialBoard, White, CastlingRights_all, None, 0, 1)

\* After 1. Nb1-c3 Ng8-f6 2. Nc3-d5 Nb8-c6, each a move the generator yields.
KnightGamePosition ==
    apply_move(apply_move(apply_move(apply_move(InitialPosition,
        Move_new(from_coords(0, 1), from_coords(2, 2))),
        Move_new(from_coords(7, 6), from_coords(5, 5))),
        Move_new(from_coords(2, 2), from_coords(4, 3))),
        Move_new(from_coords(7, 1), from_coords(5, 2)))

\* After 63 rounds of 1. Nb1-c3 Nb8-c6 2. Nc3-b1 Nc6-b8 from the initial
\* position, 252 plies without a pawn move or a capture: the initial layout
\* with the two knights marked as moved.
ShuffledPosition ==
    MkState(Setup(InitialBoard,
                  << << with_moved(Piece_new(Knight, White)), from_coords(0, 1) >>,
                     << with_moved(Piece_new(Knight, Black)), from_coords(7, 1) >> >>),
            White, CastlingRights_all, None, 252, 127)

\* One ply later, after Nb1-c3: the clock stands at 253, Black is to move.
LongGamePosition ==
    apply_move(ShuffledPosition, Move_new(from_coords(0, 1), from_coords(2, 2)))

\* Kings and rooks at home with empty corridors (Scenario B on both wings), a
\* white knight on e2 shielding its king from the black queen on e7, and a
\* black pawn on b4 beside the file of White's unmoved a-pawn.
CastleBoard ==
    Setup(Board_new,
          << << Piece_new(King, White), from_coords(0, 4) >>,
             << Piece_new(Rook, White), from_coords(0, 0) >>,
             << Piece_new(Rook, White), from_coords(0, 7) >>,
             << with_moved(Piece_new(Knight, White)), from_coords(1, 4) >>,
             << Piece_new(Pawn, White), from_coords(1, 0) >>,
             << Piece_new(Pawn, White), from_coords(1, 7) >>,
             << Piece_new(King, Black), from_coords(7, 4) >>,
             << Piece_new(Rook, Black), from_coords(7, 0) >>,
             << Piece_new(Rook, Black), from_coords(7, 7) >>,
             << with_moved(Piece_new(Queen, Black)), from_coords(6, 4) >>,
             << Piece_new(Pawn, Black), from_coords(6, 0) >>,
             << Piece_new(Pawn, Black), from_coords(6, 7) >>,
             << with_moved(Piece_new(Pawn, Black)), from_coords(3, 1) >> >>)

CastlePosition == MkState(CastleBoard, White, CastlingRights_all, None, 6, 20)

\* The same layout after the a1 and h8 rooks have moved and come back: White
\* holds the kingside right alone, Black the queenside right alone.
CastleBoardPartial ==
    Setup(CastleBoard,
          << << with_moved(Piece_new(Rook, White)), from_coords(0, 0) >>,
             << with_moved(Piece_new(Rook, Black)), from_coords(7, 7) >> >>)

CastlePositionPartial ==
    MkState(CastleBoardPartial, White,
            gain(gain(CastlingRights_none, White, Kingside), Black, Queenside),
            None, 6, 20)

\* Black to move with a pawn on e7 beside White's d5 pawn (Scenario C) and
\* pawns one step from promotion on both sides (Scenario D).
PawnBoard ==
    Setup(Board_new,
          << << with_moved(Piece_new(King, White)), from_coords(0, 6) >>,
             << with_moved(Piece_new(Pawn, White)), from_coords(4, 3) >>,
             << with_moved(Piece_new(Pawn, White)), from_coords(6, 1) >>,
             << with_moved(Piece_new(King, Black)), from_coords(7, 6) >>,
             << Piece_new(Pawn, Black), from_coords(6, 4) >>,
             << with_moved(Piece_new(Pawn, Black)), from_coords(1, 2) >>,
             << with_moved(Piece_new(Knight, Black)), from_coords(7, 0) >> >>)

PawnPosition == MkState(PawnBoard, Black, CastlingRights_none, None, 3, 30)

\* Scenario E: a back-rank mate. White's king on g1 behind its pawns f2, g2 and
\* h2, Black's rook on d1 with e1 and f1 empty; White is to move.
MateBoard ==
    Setup(Board_new,
          << << with_moved(Piece_new(King, White)), from_coords(0, 6) >>,
             << Piece_new(Pawn, White), from_coords(1, 5) >>,
             << Piece_new(Pawn, White), from_coords(1, 6) >>,
             << Piece_new(Pawn, White), from_coords(1, 7) >>,
             << with_moved(Piece_new(Rook, Black)), from_coords(0, 3) >>,
             << with_moved(Piece_new(King, Black)), from_coords(7, 6) >> >>)

MatePosition == MkState(MateBoard, White, CastlingRights_none, None, 1, 40)

\* The board of LongGamePosition 65408 rounds of the same shuffle later, in the
\* build that wraps: 131069 plies, the halfmove clock at 253 again and the
\* fullmove number at its last value, Black to move.
LastMovePosition == [LongGamePosition EXCEPT !.fullmove_number = 65535]

\* A position built by the caller with the halfmove clock at its last value:
\* Black's king on e8 in check from the knight on d6, which Black's knight on
\* b7 can take; Black's other knight stands on g8, White's king on e1.
CheckedPosition ==
    MkState(Setup(Board_new,
                  << << with_moved(Piece_new(King, White)), from_coords(0, 4) >>,
                     << with_moved(Piece_new(Knight, White)), from_coords(5, 3) >>,
                     << with_moved(Piece_new(King, Black)), from_coords(7, 4) >>,
                     << with_moved(Piece_new(Knight, Black)), from_coords(6, 1) >>,
                     << with_moved(Piece_new(Knight, Black)), from_coords(7, 6) >> >>),
            Black, CastlingRights_none, None, 255, 77)

StartPositions ==
    { InitialPosition, CastlePosition, CastlePositionPartial, PawnPosition, MatePosition }
GeneratorStarts == { InitialPosition, KnightGamePosition }

\* ----------------------------------------------------------- state machine
VARIABLES board, to_move, castling_rights, en_passant, halfmove_clock,
          fullmove_number, prev, mv, op, ply, king_left, query, call

vars == << board, to_move, castling_rights, en_passant, halfmove_clock,
           fullmove_number, prev, mv, op, ply, king_left, query, call >>

\* The position held now, as a State value.
Cur == MkState(board, to_move, castling_rights, en_passant, halfmove_clock,
               fullmove_number)

Install(st) ==
    /\ board' = st.board
    /\ to_move' = st.to_move
    /\ castling_rights' = st.castling_rights
    /\ en_passant' = st.en_passant
    /\ halfmove_clock' = st.halfmove_clock
    /\ fullmove_number' = st.fullmove_number

\* prev, mv, op and ply record the last call; king_left the colors whose king
\* has left its home square.
Record(m, how) ==
    /\ prev' = Cur
    /\ mv' = Some(m)
    /\ op' = how
    /\ ply' = ply + 1
    /\ king_left' = IF /\ Holds(board, source(m), to_move, {King})
                       /\ source(m) = from_coords(home_rank(to_move), KING_FILE)
                    THEN king_left \cup {to_move}
                    ELSE king_left

InitFrom(starts) ==
    /\ \E st \in starts :
          /\ board = st.board
          /\ to_move = st.to_move
          /\ castling_rights = st.castling_rights
          /\ en_passant = st.en_passant
          /\ halfmove_clock = st.halfmove_clock
          /\ fullmove_number = st.fullmove_number
          /\ prev = st
          /\ king_left = { c \in {White, Black} :
                            ~Holds(st.board, from_coords(home_rank(c), KING_FILE), c, {King}) }
    /\ mv = None
    /\ op = "init"
    /\ ply = 0
    /\ query = None
    /\ call = None

Init == InitFrom(StartPositions)

\* The moves a consumer of the iterator receives.
Yielded(moves) == { moves[i] : i \in 1 .. Len(moves) }

\* The caller takes a move MoveGenerator::all yields and applies it.
GenStep(limit) ==
    /\ ply < limit
    /\ \E m \in Yielded(all(Cur).moves) :
          /\ Install(apply_move(Cur, m))
          /\ Record(m, "gen")
    /\ UNCHANGED << query, call >>

\* The caller applies a well-formed move of its own choosing.
ApplyStep ==
    /\ ply < MaxPly
    /\ \E m \in ChessMoves(Cur) :
          /\ Install(apply_move(Cur, m))
          /\ Record(m, "apply")
    /\ UNCHANGED << query, call >>

\* The caller asks the attack oracle about a square and a color; a call that
\* aborts answers nothing.
OracleStep ==
    /\ \E s \in Squares, by \in {White, Black} :
          /\ is_square_attacked_aborts(board, s, by) = None
          /\ query' = << s, by, is_square_attacked(board, s, by) >>
    /\ UNCHANGED << board, to_move, castling_rights, en_passant, halfmove_clock,
                    fullmove_number, prev, mv, op, ply, king_left, call >>

\* The position and the record of the last move, which a codec call leaves alone.
position == << board, to_move, castling_rights, en_passant, halfmove_clock,
               fullmove_number, prev, mv, op, ply, king_left, query >>

\* Codec calls are pure: each behaviour makes one call, on fresh arguments.
\* The value a Move constructor builds from its arguments.
Build(ctor, src, tgt, kind) ==
    CASE ctor = "new" -> Move_new(src, tgt)
      [] ctor = "promotion" -> Move_promotion(src, tgt, kind)
      [] ctor = "en_passant" -> Move_en_passant(src, tgt)
      [] ctor = "castling" -> Move_castling(src, tgt)

\* The caller builds a Move: call holds the constructor, its arguments and the
\* Move built. Only Move::promotion takes a piece kind, any PieceType.
MoveStep ==
    /\ call = None
    /\ \E ctor \in {"new", "promotion", "en_passant", "castling"},
          src \in Squares, tgt \in Squares, kind \in {Knight, Bishop, Rook, Queen, Pawn, King} :
          /\ ctor # "promotion" => kind = Knight
          /\ call' = << ctor, << src, tgt, kind >>, Build(ctor, src, tgt, kind) >>
    /\ UNCHANGED position

\* The caller builds a Square from in-range coordinates.
SquareStep ==
    /\ call = None
    /\ \E r \in 0 .. 7, f \in 0 .. 7 :
          call' = << "from_coords", << r, f >>, from_coords(r, f) >>
    /\ UNCHANGED position

\* The displacements callers pass, of type i8: a board's width in either
\* direction and beyond, and as many values at either end of the type.
Shifts == (-128 .. MaxShift - 128) \cup (0 - MaxShift .. MaxShift)
              \cup (127 - MaxShift .. 127)

\* The caller asks for the square displaced by (dr, df), in a build that
\* wraps or in one with overflow checks: call holds the answer, or the panic.
OffsetStep ==
    /\ call = None
    /\ \E sq \in Squares, dr \in Shifts, df \in Shifts :
          \E outcome \in { Ok(offset(sq, dr, df)), offset_overflow_checked(sq, dr, df) } :
             call' = << "offset", << sq, dr, df >>, outcome >>
    /\ UNCHANGED position

\* The caller asks for the square ahead of a color's pawn.
ForwardStep ==
    /\ call = None
    /\ \E sq \in Squares, c \in {White, Black}, steps \in Shifts,
          lateral \in {Left, Straight, Right} :
          \E outcome \in { Ok(forward(sq, c, steps, lateral)),
                           forward_overflow_checked(sq, c, steps, lateral) } :
             call' = << "forward", << sq, c, steps, lateral >>, outcome >>
    /\ UNCHANGED position

Next == GenStep(MaxPly) \/ ApplyStep
\* The caller runs MoveGenerator::all to its end, or to the abort that ends
\* it, in a build that wraps or in one with overflow checks, and keeps the
\* moves; the position is whatever the generator leaves behind. call holds
\* the state passed, the moves yielded, the abort if any, and whether the
\* build checks for overflow.
GenerateStep(limit) ==
    /\ call = None
    /\ ply < limit
    /\ \E checks \in BOOLEAN :
          \E heap \in { << Cur >> } :
             \E done \in { generate(heap, 1, 0, 0, to_move, << >>, checks) } :
                /\ Install(done.heap[1])
                /\ call' = << "all", << Cur >>, done.moves, done.panic, checks >>
    /\ prev' = Cur
    /\ mv' = None
    /\ op' = "generate"
    /\ UNCHANGED << ply, king_left, query >>

\* The pieces a caller may place: whatever Piece::new, with_moved, from_value
\* or try_from hand out, which is every byte with the occupied bit.
Pieces == { value \in 0 .. 255 : from_value(value) # None }

\* board[s] = value through IndexMut, on a board as constructed, before the
\* calls that find the byte there. The squares written to are a1 and a3; the
\* bytes are the empty square, empty squares with kind bits, with the moved
\* bit or with every bit below the occupied one, and a piece.
IndexMutStep ==
    /\ op = "init"
    /\ \E s \in { from_coords(0, 0), from_coords(2, 0) },
          value \in { 0, 1, 5, 64, 127, 255 } :
          board' = [board EXCEPT ![s] = value]
    /\ prev' = Cur
    /\ op' = "index_mut"
    /\ UNCHANGED << to_move, castling_rights, en_passant, halfmove_clock,
                    fullmove_number, mv, ply, king_left, query, call >>

\* The caller places a piece on a square.
SetPieceStep ==
    /\ ply < MaxBoardCalls
    /\ \E p \in Pieces, s \in Squares :
          \E done \in { set_piece(board, p, s) } :
             /\ board' = done.board
             /\ call' = << "set_piece", << p, s >>, done.ret >>
    /\ prev' = Cur
    /\ op' = "board"
    /\ ply' = ply + 1
    /\ UNCHANGED << to_move, castling_rights, en_passant, halfmove_clock,
                    fullmove_number, mv, king_left, query >>

\* The caller lifts whatever stands on a square.
RemovePieceStep ==
    /\ ply < MaxBoardCalls
    /\ \E s \in Squares :
          \E done \in { remove_piece(board, s) } :
             /\ board' = done.board
             /\ call' = << "remove_piece", << s >>, done.ret >>
    /\ prev' = Cur
    /\ op' = "board"
    /\ ply' = ply + 1
    /\ UNCHANGED << to_move, castling_rights, en_passant, halfmove_clock,
                    fullmove_number, mv, king_left, query >>

\* The caller moves whatever stands on one square to another.
MovePieceStep ==
    /\ ply < MaxBoardCalls
    /\ \E s \in Squares, t \in Squares :
          \E done \in { move_piece(board, s, t) } :
             /\ board' = done.board
             /\ call' = << "move_piece", << s, t >>, done.ret >>
    /\ prev' = Cur
    /\ op' = "board"
    /\ ply' = ply + 1
    /\ UNCHANGED << to_move, castling_rights, en_passant, halfmove_clock,
                    fullmove_number, mv, king_left, query >>

NextBoard == IndexMutStep \/ SetPieceStep \/ RemovePieceStep \/ MovePieceStep

\* The caller asks for the pseudo-legal moves of one of the mover's knights,
\* as pseudo_legal_moves does for each knight it comes to before it ends.
KnightStep ==
    /\ call = None
    /\ \E stop \in { abort_square(Cur) } :
          \E sq \in { s \in Squares :
                         /\ stop # None => s < unwrap(stop)
                         /\ Holds(board, s, to_move, {Knight}) } :
             call' = << "knight_moves", << sq >>, knight_moves(Cur, sq) >>
    /\ UNCHANGED position

\* A build with overflow checks (GenStep is the build that wraps): the caller
\* runs MoveGenerator::all, and the check of the first candidate whose
\* halfmove_clock + 1 or fullmove_number + 1 overflows aborts the program,
\* legal or not, after the moves yielded before it. call holds those moves
\* and the panic.
OverflowStep ==
    /\ ply < MaxClockPly
    /\ call = None
    /\ \E done \in { all_overflow_checked(Cur) } :
          /\ done.panic # None
          /\ unwrap(done.panic)[2] = "attempt to add with overflow"
          /\ call' = << "all", << Cur >>, done.moves, done.panic >>
    /\ prev' = Cur
    /\ mv' = None
    /\ op' = "panic"
    /\ ply' = ply + 1
    /\ UNCHANGED << board, to_move, castling_rights, en_passant, halfmove_clock,
                    fullmove_number, king_left, query >>

\* Nothing runs after the abort, and a caller that has run the generator to
\* its end plays no further move.
NextClock ==
    (call = None /\ GenStep(MaxClockPly)) \/ OverflowStep \/ GenerateStep(MaxClockPly)

NextGen == (call = None /\ GenStep(MaxGenPly)) \/ GenerateStep(MaxGenPly) \/ KnightStep
\* The caller reports a square a rook of some color left or was captured on.
RightsStep ==
    /\ call = None
    /\ \E cr \in CastlingRights_none .. CastlingRights_all, sq \in Squares,
          c \in {White, Black} :
          call' = << "lose_for_rook_at", << cr, sq, c >>, lose_for_rook_at(cr, sq, c) >>
    /\ UNCHANGED position

NextCodec == MoveStep \/ SquareStep \/ OffsetStep \/ ForwardStep \/ RightsStep

Spec == Init /\ [][Next]_vars
SpecGen == InitFrom(GeneratorStarts) /\ [][NextGen]_vars
SpecOracle == Init /\ [][OracleStep]_vars
SpecCodec == InitFrom({InitialPosition}) /\ [][NextCodec]_vars
SpecBoard == Init /\ [][NextBoard]_vars
SpecClock ==
    InitFrom({ LongGamePosition, LastMovePosition, CheckedPosition }) /\ [][NextClock]_vars

\* ------------------------------------------------------------------ claims
\* The last call's move, the piece it moved and whether it captured.
LastMove == unwrap(mv)
MovedPiece == prev.board[source(LastMove)]
Captured ==
    \/ ~is_empty(prev.board, target(LastMove))
    \/ move_type(LastMove) = EnPassant
OneKingEach(b) ==
    /\ Cardinality(KingSquares(b, White)) = 1
    /\ Cardinality(KingSquares(b, Black)) = 1

\* C1: in the standard initial position with White to move the generator
\* yields exactly 20 moves, 8 single pawn pushes, 8 double pawn pushes and 4
\* knight moves, none of them twice.
C1_InitialPositionYieldsTwenty ==
    Cur = InitialPosition =>
        LET ms == all(Cur).moves
            pawn(m) == /\ move_type(m) = Normal
                       /\ Holds(board, source(m), White, {Pawn})
                       /\ file(target(m)) = file(source(m))
        IN  /\ Len(ms) = 20
            /\ Cardinality(Yielded(ms)) = 20
            /\ Cardinality({ m \in Yielded(ms) :
                   pawn(m) /\ rank(target(m)) = rank(source(m)) + 1 }) = 8
            /\ Cardinality({ m \in Yielded(ms) :
                   pawn(m) /\ rank(target(m)) = rank(source(m)) + 2 }) = 8
            /\ Cardinality({ m \in Yielded(ms) :
                   move_type(m) = Normal /\ Holds(board, source(m), White, {Knight}) }) = 4

\* C2: after a move the generator yielded on a position with one king per
\* color, the mover's king stands on a square no opposing knight, slider,
\* pawn or king attacks.
C2_GeneratedMoveLeavesKingUnattacked ==
    (op = "gen" /\ OneKingEach(prev.board)) =>
        \A k \in KingSquares(board, prev.to_move) :
            ~AttackedPerSpec(board, k, Not(prev.to_move))

\* C3: is_square_attacked answers true exactly when a knight, the first piece
\* on a ray (rook or queen orthogonally, bishop or queen diagonally), a pawn
\* on a diagonal-forward origin or an adjacent king of the color attacks the
\* square.
C3_OracleAnswersTheContract ==
    query # None =>
        (query[3] <=> AttackedPerSpec(board, query[1], query[2]))

\* C4: every position reached from the initial position by applying generated
\* moves holds exactly one White king and exactly one Black king.
C4_OneKingPerColor == OneKingEach(board)

\* A generated capture that gives a knight check: the king it attacks stays.
C4_Witness ==
    /\ op = "gen"
    /\ ~is_empty(prev.board, target(LastMove))
    /\ is_in_check(Cur)
    /\ OneKingEach(board)

\* C5: no applied move adds a castling right: every (color, side) right held
\* after the move was held before it.
C5_RightsNeverGrow ==
    \A c \in {White, Black}, s \in {Kingside, Queenside} :
        has(castling_rights, c, s) => has(prev.castling_rights, c, s)

\* A castling move that took rights away.
C5_Witness ==
    /\ op # "init"
    /\ move_type(LastMove) = Castling
    /\ castling_rights # prev.castling_rights
    /\ C5_RightsNeverGrow

\* C6: once a color's king has left its home square, by a Normal king move or
\* by castling, that color holds no castling right, then and ever after.
C6_KingMoveDropsAllRights ==
    \A c \in king_left : ~any(castling_rights, c)

\* The sides whose rook-origin square for color c is sq.
RookOriginSides(sq, c) ==
    { s \in {Kingside, Queenside} : sq = from_coords(home_rank(c), rook_source_file(s)) }

\* C7: after a non-king move the mover has lost the right whose rook-origin
\* square is the source, the opponent the right whose rook-origin square is
\* the target of a capture, and every other right is as before.
C7_RookSquareDropsOneRight ==
    (op # "init" /\ piece_type(MovedPiece) # King) =>
        \A c \in {White, Black}, s \in {Kingside, Queenside} :
            has(castling_rights, c, s) <=>
                /\ has(prev.castling_rights, c, s)
                /\ ~(c = prev.to_move /\ s \in RookOriginSides(source(LastMove), c))
                /\ ~(/\ c = Not(prev.to_move)
                     /\ ~is_empty(prev.board, target(LastMove))
                     /\ s \in RookOriginSides(target(LastMove), c))

\* Whether the last move advanced a pawn by two ranks.
PawnAdvancedTwo ==
    /\ piece_type(MovedPiece) = Pawn
    /\ rank(target(LastMove)) - rank(source(LastMove)) \in {-2, 2}

\* C8: after apply_move the en-passant target is the square the pawn skipped
\* iff the moved piece was a pawn advancing two ranks, and is empty after any
\* other move of any category.
C8_EnPassantTarget ==
    op # "init" =>
        en_passant =
            IF PawnAdvancedTwo
            THEN Some(8 * ((rank(source(LastMove)) + rank(target(LastMove))) \div 2)
                      + file(source(LastMove)))
            ELSE None

\* A double push answering a double push: the old target is replaced.
C8_Witness ==
    /\ op # "init"
    /\ PawnAdvancedTwo
    /\ prev.en_passant # None
    /\ en_passant # None
    /\ en_passant # prev.en_passant

\* C9: after apply_move the halfmove clock is 0 if the moved piece was a pawn
\* or the move captured, and the previous clock plus 1 otherwise.
C9_HalfmoveClock ==
    op \in {"gen", "apply"} =>
        halfmove_clock =
            IF piece_type(MovedPiece) = Pawn \/ Captured THEN 0
            ELSE prev.halfmove_clock + 1

\* C10: apply_move flips the side to move; the fullmove number grows by one
\* when Black moved and stays when White moved.
C10_TurnAndFullmove ==
    op \in {"gen", "apply"} =>
        /\ to_move # prev.to_move
        /\ to_move \in {White, Black}
        /\ fullmove_number =
             prev.fullmove_number + (IF prev.to_move = Black THEN 1 ELSE 0)

\* C11: after an EnPassant move the source square is empty, the capturing pawn
\* stands on the target square (the former en-passant target), and the square
\* at (source rank, target file), where the double-stepped pawn stood, is
\* empty; that square is not the target.
C11_EnPassantRemovesBesidePawn ==
    (op # "init" /\ move_type(LastMove) = EnPassant) =>
        LET src == source(LastMove)
            tgt == target(LastMove)
            beside == 8 * (src \div 8) + (tgt % 8)
        IN  /\ board[src] = 0
            /\ board[tgt] # 0
            /\ piece_type(board[tgt]) = Pawn
            /\ color(board[tgt]) = prev.to_move
            /\ prev.en_passant = Some(tgt)
            /\ beside # tgt
            /\ prev.board[beside] # 0
            /\ piece_type(prev.board[beside]) = Pawn
            /\ color(prev.board[beside]) = Not(prev.to_move)
            /\ board[beside] = 0
            /\ \A s \in Squares \ {src, tgt, beside} : board[s] = prev.board[s]

\* After Black e7-e5, White captures d5xe6: the pawn leaves e5, e6 is taken.
C11_Witness ==
    /\ op # "init"
    /\ move_type(LastMove) = EnPassant
    /\ prev.to_move = White
    /\ source(LastMove) = 35
    /\ target(LastMove) = 44
    /\ board[36] = 0
    /\ board[44] # 0
    /\ board[35] = 0

\* C12: after a Castling move the king stands on the target and the rook of
\* the same rank has gone from file 7 to file 5 when the target file is above
\* the source file, and from file 0 to file 3 otherwise; the king's source
\* and the rook's origin are empty, for either color.
C12_CastlingMovesKingAndRook ==
    (op # "init" /\ move_type(LastMove) = Castling) =>
        LET src == source(LastMove)
            tgt == target(LastMove)
            kingside == (tgt % 8) > (src % 8)
            rook_from == 8 * (src \div 8) + (IF kingside THEN 7 ELSE 0)
            rook_to == 8 * (src \div 8) + (IF kingside THEN 5 ELSE 3)
            mover == prev.to_move
        IN  /\ piece_type(prev.board[src]) = King
            /\ board[tgt] # 0
            /\ piece_type(board[tgt]) = King
            /\ color(board[tgt]) = mover
            /\ piece_type(prev.board[rook_from]) = Rook
            /\ board[rook_to] # 0
            /\ piece_type(board[rook_to]) = Rook
            /\ color(board[rook_to]) = mover
            /\ board[src] = 0
            /\ board[rook_from] = 0
            /\ \A s \in Squares \ {src, tgt, rook_from, rook_to} :
                   board[s] = prev.board[s]

\* Black castles queenside after White castled kingside.
C12_Witness ==
    /\ op # "init"
    /\ move_type(LastMove) = Castling
    /\ prev.to_move = Black
    /\ source(LastMove) = 60
    /\ target(LastMove) = 58
    /\ board[56] = 0
    /\ board[59] # 0
    /\ board[5] # 0
    /\ board[6] # 0
    /\ board[7] = 0

\* C13: after a Promotion move the source is empty and the target holds one
\* piece of the kind the move names and of the mover's color, whether the
\* target was empty or held a piece before; no pawn is left on either square.
C13_PromotionReplacesPawn ==
    (op # "init" /\ move_type(LastMove) = Promotion) =>
        LET src == source(LastMove)
            tgt == target(LastMove)
            chosen == (LastMove \div 4096) % 4
        IN  /\ piece_type(prev.board[src]) = Pawn
            /\ board[src] = 0
            /\ board[tgt] # 0
            /\ piece_type(board[tgt]) = PROMOTABLE[chosen + 1]
            /\ piece_type(board[tgt]) # Pawn
            /\ color(board[tgt]) = prev.to_move
            /\ \A s \in Squares \ {src, tgt} : board[s] = prev.board[s]

\* White b7xa8 promoting to a rook on the square of the captured knight.
C13_Witness ==
    /\ op # "init"
    /\ move_type(LastMove) = Promotion
    /\ prev.to_move = White
    /\ source(LastMove) = 49
    /\ target(LastMove) = 56
    /\ prev.board[56] # 0
    /\ color(prev.board[56]) = Black
    /\ board[49] = 0
    /\ piece_type(board[56]) = Rook
    /\ color(board[56]) = White

\* Whether the side to move may castle on the given side under the contract:
\* it holds the right, the corridor is empty, and the king's source, the
\* square it crosses and its target are not attacked by the opponent.
MayCastle(side) ==
    LET home == 8 * (IF to_move = White THEN 0 ELSE 7)
        corridor == IF side = Kingside THEN {5, 6} ELSE {1, 2, 3}
        path == IF side = Kingside THEN {4, 5, 6} ELSE {4, 3, 2}
    IN  /\ has(castling_rights, to_move, side)
        /\ \A f \in corridor : board[home + f] = 0
        /\ \A f \in path : ~AttackedPerSpec(board, home + f, Not(to_move))

\* C14: generation from the square of the mover's king yields the Castling
\* move of a side (to file 6 kingside, file 2 queenside) iff the mover holds
\* that right, the corridor of that side is empty and none of the king's
\* source, crossed and target squares is attacked; with White's king on e1,
\* rook on h1, f1 and g1 empty and unattacked, it yields castling to g1.
C14_KingEmitsCastling ==
    \A k \in KingSquares(board, to_move), side \in {Kingside, Queenside} :
        LET home == 8 * (IF to_move = White THEN 0 ELSE 7)
            castle == k + 64 * (home + (IF side = Kingside THEN 6 ELSE 2)) + 3 * 16384
        IN  k = home + 4 =>
                (castle \in Yielded(from(Cur, k).moves) <=> MayCastle(side))

\* The squares of the mover's pawns whose diagonal-forward square is t.
PawnsBeside(t) ==
    LET back == IF to_move = White THEN -1 ELSE 1
    IN  { sq \in Squares :
            /\ Holds(board, sq, to_move, {Pawn})
            /\ sq \div 8 = (t \div 8) + back
            /\ (sq % 8) - (t % 8) \in {-1, 1} }

\* C15: when the en-passant target is set, generation from the square of each
\* pawn of the side to move that has the target diagonally ahead yields the
\* EnPassant move to the target, and that move's en_passant_capture() is the
\* square of the pawn that has just advanced two ranks.
C15_PawnEmitsEnPassant ==
    (op # "init" /\ en_passant # None) =>
        \A sq \in PawnsBeside(unwrap(en_passant)) :
            LET ep == sq + 64 * unwrap(en_passant) + 2 * 16384
            IN  /\ ep \in Yielded(from(Cur, sq).moves)
                /\ en_passant_capture(ep) = target(LastMove)

\* The squares of the mover's pawns that stand one step from their far rank.
PawnsBeforeFarRank ==
    { sq \in Squares :
        /\ Holds(board, sq, to_move, {Pawn})
        /\ sq \div 8 = (IF to_move = White THEN 6 ELSE 1) }

\* C16: generation from the square of a pawn of the side to move that stands
\* one step from its far rank yields no Normal move onto the far rank, and
\* for each far-rank square the pawn may move to it yields exactly the four
\* Promotion moves to that square, one per promotable kind.
C16_FarRankPawnOnlyPromotes ==
    \A sq \in PawnsBeforeFarRank :
        LET ys == Yielded(from(Cur, sq).moves)
            far == IF to_move = White THEN 7 ELSE 0
            dests == { (m \div 64) % 64 : m \in { m \in ChessMoves(Cur) : m % 64 = sq } }
        IN  /\ \A m \in ys : ~(move_type(m) = Normal /\ rank(target(m)) = far)
            /\ \A d \in dests :
                   { m \in ys : target(m) = d } =
                       { sq + 64 * d + 4096 * k + 16384 : k \in 0 .. 3 }

\* Whether the side to move is mated on its back rank: its king stands on its
\* home rank with own pawns on every square ahead of it, an enemy rook or
\* queen is the first piece on the rank to one side of it, and no move of the
\* contract is left to it.
BackRankMate ==
    \E k \in KingSquares(board, to_move) :
        LET home == IF to_move = White THEN 0 ELSE 7
            ahead == IF to_move = White THEN 1 ELSE 6
        IN  /\ k \div 8 = home
            /\ \A f \in { f \in 0 .. 7 : f - (k % 8) \in {-1, 0, 1} } :
                   Holds(board, 8 * ahead + f, to_move, {Pawn})
            /\ \E a \in { a \in Squares : a \div 8 = home /\ a # k } :
                   /\ Holds(board, a, Not(to_move), {Rook, Queen})
                   /\ \A s \in Squares :
                          ((s > a /\ s < k) \/ (s > k /\ s < a)) => board[s] = 0
            /\ ChessMoves(Cur) = {}

\* C17: in a back-rank mate is_in_check answers true and the generator yields
\* no move.
C17_BackRankMate ==
    BackRankMate =>
        (is_in_check(Cur) /\ all(Cur) = [moves |-> << >>, panic |-> None])

\* The category a Move constructor stands for.
CategoryOf(ctor) ==
    CASE ctor = "new" -> 0
      [] ctor = "promotion" -> 1
      [] ctor = "en_passant" -> 2
      [] ctor = "castling" -> 3

\* C18: a Move built by new, promotion (with any piece kind), en_passant or
\* castling from any source and target decodes to that source, that target
\* and the constructor's category; promotion_piece() is present exactly when
\* the category is Promotion, and is then the kind passed in.
C18_MoveRoundTrip ==
    (call # None /\ call[1] \in {"new", "promotion", "en_passant", "castling"}) =>
        LET src == call[2][1]
            tgt == call[2][2]
            kind == call[2][3]
            m == call[3]
        IN  /\ source(m) = src
            /\ target(m) = tgt
            /\ move_type(m) = CategoryOf(call[1])
            /\ (promotion_piece(m) # None) <=> (call[1] = "promotion")
            /\ call[1] = "promotion" => promotion_piece(m) = << kind >>

\* C19: for rank and file in 0..7 the square from_coords(rank, file) has that
\* rank, that file and the index rank*8 + file, and from_index of its index
\* is the same square.
C19_SquareRoundTrip ==
    (call # None /\ call[1] = "from_coords") =>
        LET r == call[2][1]
            f == call[2][2]
            sq == call[3]
        IN  /\ rank(sq) = r
            /\ file(sq) = f
            /\ index(sq) = r * 8 + f
            /\ from_index(index(sq)) = sq
            /\ sq \in Squares

\* The square built from rank 5 and file 2 is square 42.
C19_Witness ==
    /\ call # None
    /\ call[1] = "from_coords"
    /\ call[2] = << 5, 2 >>
    /\ call[3] = 42
    /\ rank(call[3]) = 5
    /\ file(call[3]) = 2

\* The square displaced by (dr, df) from sq on an 8 by 8 board, if there is one.
Displaced(sq, dr, df) ==
    LET r == (sq \div 8) + dr
        f == (sq % 8) + df
    IN  IF r \in 0 .. 7 /\ f \in 0 .. 7 THEN << 8 * r + f >> ELSE << >>

\* C20: for every square and every (dr, df) of i8, offset returns the square
\* at (rank+dr, file+df) when both coordinates lie in 0..7 and returns
\* nothing otherwise, never a square of another rank or file; forward for
\* White is offset by (steps, lateral), and forward for Black returns what
\* forward for White returns for steps and lateral negated.
C20_OffsetNeverWraps ==
    /\ (call # None /\ call[1] = "offset") =>
           call[3] = << "ok", Displaced(call[2][1], call[2][2], call[2][3]) >>
    /\ (call # None /\ call[1] = "forward") =>
           LET sq == call[2][1]
               steps == call[2][3]
               lateral == call[2][4]
           IN  IF call[2][2] = White
               THEN call[3] = << "ok", Displaced(sq, steps, lateral) >>
               ELSE call[3] = << "ok", Displaced(sq, 0 - steps, 0 - lateral) >>

\* C20 in the build that wraps: no call of offset or forward returns a square
\* other than the displaced one.
C20_WrappingBuildNeverWraps ==
    (call # None /\ call[1] \in {"offset", "forward"} /\ call[3][1] = "ok") =>
        C20_OffsetNeverWraps

\* C21: lose_for_rook_at(square, color) clears that color's kingside right
\* exactly when the square is (home rank, file 7) and its queenside right
\* exactly when the square is (home rank, file 0); for every other square the
\* rights come back unchanged, and no right of the other color ever changes.
C21_LoseForRookAt ==
    (call # None /\ call[1] = "lose_for_rook_at") =>
        LET cr == call[2][1]
            sq == call[2][2]
            c == call[2][3]
            home == IF c = White THEN 0 ELSE 7
            held(rights, col, side) == (rights \div (2 ^ (2 * col + side))) % 2 = 1
        IN  /\ \A side \in {Kingside, Queenside} :
                   /\ held(call[3], c, side) <=>
                          /\ held(cr, c, side)
                          /\ sq # 8 * home + (IF side = Kingside THEN 7 ELSE 0)
                   /\ held(call[3], Not(c), side) <=> held(cr, Not(c), side)
            /\ sq \notin {8 * home, 8 * home + 7} => call[3] = cr
            /\ call[3] \in 0 .. 15

\* Black's rook square h8 with all rights held: only Black's kingside right goes.
C21_Witness ==
    /\ call # None
    /\ call[1] = "lose_for_rook_at"
    /\ call[2] = << 15, 63, Black >>
    /\ call[3] = 11

\* C22: running the generator leaves the position as it was (board, side to
\* move, castling rights, en-passant target and both clocks), and each
\* candidate is yielded iff it is legal on that position taken alone, whatever
\* candidates were simulated before it.
C22_GenerationLeavesPosition ==
    op = "generate" =>
        /\ board = prev.board
        /\ to_move = prev.to_move
        /\ castling_rights = prev.castling_rights
        /\ en_passant = prev.en_passant
        /\ halfmove_clock = prev.halfmove_clock
        /\ fullmove_number = prev.fullmove_number
        /\ \E candidates \in { pseudo_legal_moves(prev) } :
              \E alone \in { Flatten([i \in 1 .. Len(candidates.moves) |->
                                 << IF call[5]
                                    THEN is_legal_overflow_checked(prev, candidates.moves[i])
                                    ELSE is_legal(prev, candidates.moves[i]) >>]) } :
                 LET n == CHOOSE i \in 1 .. Len(alone) + 1 :
                             /\ i <= Len(alone) => alone[i][1] = "panic"
                             /\ \A j \in 1 .. i - 1 : alone[j][1] = "ok"
                 IN  /\ call[3] = Flatten([i \in 1 .. n - 1 |->
                                       IF alone[i] = << "ok", TRUE >>
                                       THEN << candidates.moves[i] >> ELSE << >>])
                     /\ call[4] = IF n <= Len(alone) THEN Some(alone[n])
                                  ELSE candidates.panic

\* A generation for a side in check that simulated candidates and rejected them.
C22_Witness ==
    /\ op = "generate"
    /\ Cur = prev
    /\ is_in_check(prev)
    /\ Len(pseudo_legal_moves(prev).moves) > 1
    /\ Len(call[3]) < Len(pseudo_legal_moves(prev).moves)

\* What a square's byte holds: nothing, or the piece.
Occupant(value) == IF value < 128 THEN << >> ELSE << value >>

\* C23 as stated: move_piece from an occupied source leaves the source empty
\* and the target holding the moved piece, of the same kind and color and with
\* its has-moved flag set, and returns the piece the target held before,
\* nothing if it was empty; set_piece and remove_piece return what the square
\* held before.
C23_BoardCallsReturnOccupant ==
    /\ (op = "board" /\ call[1] = "move_piece" /\ prev.board[call[2][1]] >= 128) =>
           LET s == call[2][1]
               t == call[2][2]
               was == prev.board[s]
           IN  /\ board[s] < 128
               /\ board[t] >= 128
               /\ board[t] % 8 = was % 8
               /\ (board[t] \div 8) % 2 = (was \div 8) % 2
               /\ (board[t] \div 64) % 2 = 1
               /\ call[3] = Occupant(prev.board[t])
    /\ (op = "board" /\ call[1] = "set_piece") =>
           call[3] = Occupant(prev.board[call[2][2]])
    /\ (op = "board" /\ call[1] = "remove_piece") =>
           call[3] = Occupant(prev.board[call[2][1]])

\* C23 amended: move_piece from an occupied source to another square leaves
\* the source empty and the target holding the moved piece, of the same kind
\* and color and with its has-moved flag set, and returns the piece the target
\* held before, nothing if it was empty; move_piece from an occupied square to
\* that same square leaves the piece on it with its has-moved flag set and
\* returns nothing; either way no other square changes. set_piece and
\* remove_piece return what the square held before, and leave the new piece,
\* or nothing, on it.
C23_MovePieceToAnotherSquare ==
    /\ (op = "board" /\ call[1] = "move_piece" /\ prev.board[call[2][1]] >= 128) =>
           LET s == call[2][1]
               t == call[2][2]
               was == prev.board[s]
           IN  /\ board[t] >= 128
               /\ board[t] % 8 = was % 8
               /\ (board[t] \div 8) % 2 = (was \div 8) % 2
               /\ (board[t] \div 64) % 2 = 1
               /\ s # t => /\ board[s] = 0
                           /\ call[3] = Occupant(prev.board[t])
               /\ s = t => call[3] = << >>
               /\ \A o \in Squares \ {s, t} : board[o] = prev.board[o]
    /\ (op = "board" /\ call[1] = "set_piece") =>
           /\ call[3] = Occupant(prev.board[call[2][2]])
           /\ board[call[2][2]] = call[2][1]
    /\ (op = "board" /\ call[1] = "remove_piece") =>
           /\ call[3] = Occupant(prev.board[call[2][1]])
           /\ board[call[2][1]] = 0

\* White's unmoved knight b1 takes the pawn on d2: the pawn is returned.
C23_Witness ==
    /\ op = "board"
    /\ call[1] = "move_piece"
    /\ call[2] = << 1, 11 >>
    /\ prev.board[1] = 128
    /\ prev.board[11] = 132
    /\ board[11] = 192
    /\ board[1] = 0
    /\ call[3] = << 132 >>

KnightJumps(sq) ==
    { t \in Squares :
        LET dr == (t \div 8) - (sq \div 8)
            df == (t % 8) - (sq % 8)
        IN  dr * dr + df * df = 5 }

\* C25: the pseudo-legal moves of a knight of the side to move are exactly
\* the Normal moves from its square to the squares on the board, among its
\* eight jumps, that are empty or hold an enemy piece, each once; none lands
\* on a piece of the mover's color and none leaves the board.
C25_KnightPseudoLegalMoves ==
    (call # None /\ call[1] = "knight_moves") =>
        LET sq == call[2][1]
            moves == call[3]
            open == { t \in KnightJumps(sq) :
                        board[t] < 128 \/ (board[t] \div 8) % 2 # to_move }
        IN  /\ { moves[i] : i \in 1 .. Len(moves) } = { sq + 64 * t : t \in open }
            /\ Len(moves) = Cardinality(open)
            /\ \A i \in 1 .. Len(moves) :
                   /\ move_type(moves[i]) = Normal
                   /\ source(moves[i]) = sq
                   /\ ~Holds(board, target(moves[i]), to_move,
                             {Knight, Bishop, Rook, Queen, Pawn, King})

\* A knight near the edge with an own piece on one jump and an enemy on another.
C25_Witness ==
    /\ call # None
    /\ call[1] = "knight_moves"
    /\ Cardinality(KnightJumps(call[2][1])) < 8
    /\ \E t \in KnightJumps(call[2][1]) : board[t] >= 128 /\ (board[t] \div 8) % 2 = to_move
    /\ \E i \in 1 .. Len(call[3]) : board[target(call[3][i])] >= 128
    /\ \E i \in 1 .. Len(call[3]) : board[target(call[3][i])] = 0

\* The squares a move names: source and target; for EnPassant also the square
\* at (source rank, target file); for Castling also the rook's source and
\* target on the king's rank.
NamedSquares(m) ==
    LET s == m % 64
        t == (m \div 64) % 64
        kind == (m \div 16384) % 4
    IN  {s, t}
        \cup (IF kind = 2 THEN { 8 * (s \div 8) + (t % 8) } ELSE {})
        \cup (IF kind = 3
              THEN IF t % 8 > s % 8 THEN { 8 * (s \div 8) + 7, 8 * (s \div 8) + 5 }
                   ELSE { 8 * (s \div 8), 8 * (s \div 8) + 3 }
              ELSE {})

\* C26: apply_move changes only the squares the move names; every other
\* square holds the same piece, with the same has-moved flag, as before.
C26_ApplyMoveFrame ==
    op \in {"gen", "apply"} =>
        \A o \in Squares \ NamedSquares(LastMove) : board[o] = prev.board[o]

\* Black castles: its king and rook move, White's unmoved rooks and king stay.
C26_Witness ==
    /\ op \in {"gen", "apply"}
    /\ move_type(LastMove) = Castling
    /\ prev.to_move = Black
    /\ Cardinality({ o \in Squares : board[o] # prev.board[o] }) = 4
    /\ \E o \in Squares \ NamedSquares(LastMove) :
          board[o] >= 128 /\ ~has_moved(board[o]) /\ rank(o) = 0
    /\ \E o \in Squares \ NamedSquares(LastMove) : has_moved(board[o])

\* C27: along any sequence of applied moves the halfmove clock stays within
\* 0..255, and a move that is neither a pawn move nor a capture never finds
\* the clock at 255: its increment does not pass 255, by wrapping or by
\* aborting.
C27_ClockNeverOverflows ==
    /\ halfmove_clock \in 0 .. 255
    /\ ~(op = "panic" /\ unwrap(call[4])[3] = "halfmove_clock")
    /\ (op \in {"gen", "apply"} /\ piece_type(MovedPiece) # Pawn /\ ~Captured) =>
           prev.halfmove_clock + 1 <= 255

====
